---- MODULE Spec2Model ----
(***************************************************************************)
(* swiftmess: the tokenizer messageItems (a generator that reads a stream  *)
(* one character at a time and yields (level, kind, value) items) and the  *)
(* grouper structuredItems (a generator that folds those items into        *)
(* (level, block, field, values) tuples).                                  *)
(*                                                                         *)
(* A Python string is a sequence of one-character strings.  A name that    *)
(* may hold None holds None == <<>> or Some(x) == <<x>>.  A generator is   *)
(* a record of its locals plus pc, the place it is suspended at: "read"    *)
(* (about to read the next character), "yieldNN" (suspended at the yield   *)
(* of source line NN), "return" or "raise".  assert statements are         *)
(* executed (the interpreter's default, __debug__ true).                   *)
(***************************************************************************)
EXTENDS Integers, Sequences, FiniteSets, TLC

\* ---------------------------------------------------------------- bounds
\* Longest input stream given to structuredItems, in characters.
MaxLen == 9
\* Longest input stream given to messageItems alone, in characters.
MaxListLen == 8
\* Longest accumulator (block id, field name or value text), in characters.
MaxText == 1
\* Most carriage returns in one input stream.
MaxCR == 1
\* Longest sequence of items given to the for loop of structuredItems on its own.
MaxItems == 3
\* Highest level of an item in such a sequence.
MaxLevel == 1
\* Longest sequence of tuples given to the for loop of Report.__init__ on its own.
MaxTuples == 3

\* ------------------------------------------------------------ characters
Digits == {"0", "1"}
Chars == {"{", "}", ":", "\n", "\r"} \cup Digits

None == <<>>
Some(x) == <<x>>
Val(o) == o[1]

\* char.isdigit() of a one-character str
isdigit(c) == c \in Digits

DigitValue(c) == IF c = "0" THEN 0 ELSE 1

RECURSIVE DecimalValue(_)
DecimalValue(s) ==
    IF s = <<>> THEN 0
    ELSE 10 * DecimalValue(SubSeq(s, 1, Len(s) - 1)) + DigitValue(s[Len(s)])

\* -------------------------------------------------------------- exceptions
Error(what) == [type |-> "Error", what |-> what]
\* An Error whose message is formatted with a value.
ErrorNaming(what, value) == [type |-> "Error", what |-> what, value |-> value]
ValueError == [type |-> "ValueError", what |-> "invalid literal for long()"]
AssertionError == [type |-> "AssertionError", what |-> "assert"]
TypeError == [type |-> "TypeError", what |-> "NoneType += str"]
NameError == [type |-> "NameError", what |-> "level"]

\* ---------------------------------------------------- tokenizer: messageItems
\* The generator's frame right after its first statements, before any read.
TokenizerInit ==
    [state |-> "BeforeStartOfBlock", text |-> None, blockKey |-> None,
     fieldKey |-> None, level |-> 0, char |-> None,
     pc |-> "read", yielded |-> None, error |-> None]

Yield(t, line, item) == [t EXCEPT !.pc = line, !.yielded = Some(item)]

\* Raise that records the exception and lets the generator go on.
RaiseAndGoOn(t, exc) == [t EXCEPT !.error = Some(exc)]

Raise(t, exc) == [t EXCEPT !.pc = "raise", !.error = Some(exc)]

\* text += char
Accumulate(t) ==
    IF t.text = None THEN Raise(t, TypeError)
    ELSE [t EXCEPT !.text = Some(Val(t.text) \o <<Val(t.char)>>)]

\* long(text): the decimal value, ValueError on the empty string
long(t) ==
    IF Val(t.text) = <<>> THEN None ELSE Some(DecimalValue(Val(t.text)))

\* CloseBlock that goes on with the lines of the enclosing block.
CloseBlockIntoLine(t) ==
    LET u == [t EXCEPT !.state = "InLine", !.level = t.level - 1]
    IN  IF u.level >= 0 THEN u ELSE Raise(u, AssertionError)

\* level -= 1; assert level >= 0; state = _BeforeStartOfBlock
CloseBlock(t) ==
    LET u == [t EXCEPT !.state = "BeforeStartOfBlock", !.level = t.level - 1]
    IN  IF u.level >= 0 THEN u ELSE Raise(u, AssertionError)

\* BeforeStartOfBlock with level -= 1 left out.
BeforeStartOfBlockKeepingLevel(t) ==
    LET c == Val(t.char) IN
    IF c = "{" THEN
        [t EXCEPT !.state = "InBlockKey", !.level = t.level + 1, !.text = Some(<<>>)]
    ELSE IF c = "}" THEN
        IF t.level = 0 THEN Raise(t, Error("UnmatchedCloseBrace")) ELSE t
    ELSE IF c = "\n" THEN
        IF t.level # 0 THEN Raise(t, Error("UnclosedNestedBlock"))
        ELSE Yield(t, "yield76", <<t.level, "message", None>>)
    ELSE IF c # "\r" THEN Raise(t, Error("ExpectedBlockStart"))
    ELSE t

\* BeforeStartOfBlock with the level == 0 test before level -= 1 left out.
BeforeStartOfBlockUnchecked(t) ==
    LET c == Val(t.char) IN
    IF c = "{" THEN
        [t EXCEPT !.state = "InBlockKey", !.level = t.level + 1, !.text = Some(<<>>)]
    ELSE IF c = "}" THEN [t EXCEPT !.level = t.level - 1]
    ELSE IF c = "\n" THEN
        IF t.level # 0 THEN Raise(t, Error("UnclosedNestedBlock"))
        ELSE Yield(t, "yield76", <<t.level, "message", None>>)
    ELSE IF c # "\r" THEN Raise(t, Error("ExpectedBlockStart"))
    ELSE t

\* BeforeStartOfBlock with the level != 0 test before the message yield left out.
BeforeStartOfBlockAnyLevel(t) ==
    LET c == Val(t.char) IN
    IF c = "{" THEN
        [t EXCEPT !.state = "InBlockKey", !.level = t.level + 1, !.text = Some(<<>>)]
    ELSE IF c = "}" THEN
        IF t.level = 0 THEN Raise(t, Error("UnmatchedCloseBrace"))
        ELSE [t EXCEPT !.level = t.level - 1]
    ELSE IF c = "\n" THEN Yield(t, "yield76", <<t.level, "message", None>>)
    ELSE IF c # "\r" THEN Raise(t, Error("ExpectedBlockStart"))
    ELSE t

\* BeforeStartOfBlock that takes text as the start of a value, as _InLine does.
BeforeStartOfBlockTakingText(t) ==
    LET c == Val(t.char) IN
    IF c = "{" THEN
        [t EXCEPT !.state = "InBlockKey", !.level = t.level + 1, !.text = Some(<<>>)]
    ELSE IF c = "}" THEN
        IF t.level = 0 THEN Raise(t, Error("UnmatchedCloseBrace"))
        ELSE [t EXCEPT !.level = t.level - 1]
    ELSE IF c = "\n" THEN
        IF t.level # 0 THEN Raise(t, Error("UnclosedNestedBlock"))
        ELSE Yield(t, "yield76", <<t.level, "message", None>>)
    ELSE IF c # "\r" THEN [t EXCEPT !.state = "InValue", !.text = Some(<<c>>)]
    ELSE t

\* One pass of the loop body in state _BeforeStartOfBlock.
BeforeStartOfBlock(t) ==
    LET c == Val(t.char) IN
    IF c = "{" THEN
        [t EXCEPT !.state = "InBlockKey", !.level = t.level + 1, !.text = Some(<<>>)]
    ELSE IF c = "}" THEN
        IF t.level = 0 THEN Raise(t, Error("UnmatchedCloseBrace"))
        ELSE [t EXCEPT !.level = t.level - 1]
    ELSE IF c = "\n" THEN
        IF t.level # 0 THEN Raise(t, Error("UnclosedNestedBlock"))
        ELSE Yield(t, "yield76", <<t.level, "message", None>>)
    ELSE IF c # "\r" THEN Raise(t, Error("ExpectedBlockStart"))
    ELSE t

\* One pass of the loop body in state _InBlockKey, up to its yield.
InBlockKey(t) ==
    LET c == Val(t.char) IN
    IF c = ":" THEN
        IF long(t) = None THEN Raise([t EXCEPT !.state = "InLine"], ValueError)
        ELSE LET u == [t EXCEPT !.state = "InLine", !.blockKey = long(t)]
             IN  Yield(u, "yield83", <<u.level, "block", Val(u.blockKey)>>)
    ELSE IF isdigit(c) THEN Accumulate(t)
    ELSE Raise(t, Error("InvalidBlockId"))

\* InLine with level += 1 left out for a nested block.
InLineWithoutIncrement(t) ==
    LET c == Val(t.char) IN
    IF c = "{" THEN [t EXCEPT !.state = "InBlockKey", !.text = Some(<<>>)]
    ELSE IF c = "}" THEN CloseBlock(t)
    ELSE IF c = ":" THEN [t EXCEPT !.state = "InFieldKey", !.text = Some(<<>>)]
    ELSE IF c = "\n" THEN Yield(t, "yield102", <<t.level, "value", <<>> >>)
    ELSE [t EXCEPT !.state = "InValue", !.text = Some(<<c>>)]

\* InLine that takes an empty line for no value.
InLineSkippingEmptyLine(t) ==
    LET c == Val(t.char) IN
    IF c = "{" THEN
        [t EXCEPT !.state = "InBlockKey", !.level = t.level + 1, !.text = Some(<<>>)]
    ELSE IF c = "}" THEN CloseBlock(t)
    ELSE IF c = ":" THEN [t EXCEPT !.state = "InFieldKey", !.text = Some(<<>>)]
    ELSE IF c = "\n" THEN t
    ELSE [t EXCEPT !.state = "InValue", !.text = Some(<<c>>)]

\* One pass of the loop body in state _InLine, up to its yield.
InLine(t) ==
    LET c == Val(t.char) IN
    IF c = "{" THEN
        [t EXCEPT !.state = "InBlockKey", !.level = t.level + 1, !.text = Some(<<>>)]
    ELSE IF c = "}" THEN CloseBlock(t)
    ELSE IF c = ":" THEN [t EXCEPT !.state = "InFieldKey", !.text = Some(<<>>)]
    ELSE IF c = "\n" THEN Yield(t, "yield102", <<t.level, "value", <<>> >>)
    ELSE [t EXCEPT !.state = "InValue", !.text = Some(<<c>>)]

\* One pass of the loop body in state _InFieldKey.
InFieldKey(t) ==
    LET c == Val(t.char) IN
    IF c = ":" THEN
        [t EXCEPT !.state = "InFieldValue", !.fieldKey = t.text, !.text = Some(<<>>)]
    ELSE Accumulate(t)

\* One pass of the loop body in state _InFieldValue, up to its first yield.
InFieldValue(t) ==
    LET c == Val(t.char) IN
    IF c = "\n" \/ c = "}" THEN Yield(t, "yield115", <<t.level, "field", Val(t.fieldKey)>>)
    ELSE Accumulate(t)

\* One pass of the loop body in state _InValue, up to its yield.
InValue(t) ==
    LET c == Val(t.char) IN
    IF c = "\n" \/ c = "}" THEN Yield(t, "yield129", <<t.level, "value", Val(t.text)>>)
    ELSE Accumulate(t)

\* LoopBody with the char == '\r' test left out.
LoopBodyWithoutCR(t) ==
    CASE t.state = "BeforeStartOfBlock" -> BeforeStartOfBlock(t)
      [] t.state = "InBlockKey" -> InBlockKey(t)
      [] t.state = "InLine" -> InLine(t)
      [] t.state = "InFieldKey" -> InFieldKey(t)
      [] t.state = "InFieldValue" -> InFieldValue(t)
      [] t.state = "InValue" -> InValue(t)

\* The loop body for the character just read: '\r' is skipped, every other
\* character goes to the branch of the current state.
LoopBody(t) ==
    IF Val(t.char) = "\r" THEN t
    ELSE CASE t.state = "BeforeStartOfBlock" -> BeforeStartOfBlock(t)
           [] t.state = "InBlockKey" -> InBlockKey(t)
           [] t.state = "InLine" -> InLine(t)
           [] t.state = "InFieldKey" -> InFieldKey(t)
           [] t.state = "InFieldValue" -> InFieldValue(t)
           [] t.state = "InValue" -> InValue(t)

\* EndOfValue with level -= 1 left out on '}'.
EndOfValueKeepingLevel(t) ==
    [t EXCEPT !.state = IF Val(t.char) = "}" THEN "BeforeStartOfBlock" ELSE "InLine"]

\* The statements after a '}' or '\n' that ended a value: the block is closed
\* on '}', the line goes on in _InLine on '\n'.
EndOfValue(t) ==
    IF Val(t.char) = "}" THEN CloseBlock(t) ELSE [t EXCEPT !.state = "InLine"]

\* AfterYield that goes on without the value of the field just yielded.
AfterYieldWithoutValue(t) ==
    LET r == [t EXCEPT !.pc = "read", !.yielded = None] IN
    CASE t.pc = "yield76" -> r
      [] t.pc = "yield83" -> [r EXCEPT !.text = None]
      [] t.pc = "yield102" -> r
      [] t.pc = "yield115" -> EndOfValue([r EXCEPT !.fieldKey = None, !.text = None])
      [] t.pc = "yield116" -> EndOfValue([r EXCEPT !.fieldKey = None, !.text = None])
      [] t.pc = "yield129" -> EndOfValue([r EXCEPT !.text = None])

\* The generator is resumed at the yield it is suspended at and runs to its
\* next yield or to the end of the loop body.
AfterYield(t) ==
    LET r == [t EXCEPT !.pc = "read", !.yielded = None] IN
    CASE t.pc = "yield76" -> r
      [] t.pc = "yield83" -> [r EXCEPT !.text = None]
      [] t.pc = "yield102" -> r
      [] t.pc = "yield115" -> Yield(r, "yield116", <<r.level, "value", Val(r.text)>>)
      [] t.pc = "yield116" -> EndOfValue([r EXCEPT !.fieldKey = None, !.text = None])
      [] t.pc = "yield129" -> EndOfValue([r EXCEPT !.text = None])

\* readable.read(1) returned the character c: the loop body runs on it.
ReadChar(t, c) == LoopBody([t EXCEPT !.char = Some(c)])

\* EndOfStream with the level != 0 test left out.
EndOfStreamAnyLevel(t) ==
    LET u == [t EXCEPT !.char = Some("")] IN
    IF u.state # "BeforeStartOfBlock" THEN Raise(u, Error("UnclosedBlockAtEof"))
    ELSE [u EXCEPT !.pc = "return"]

\* EndOfStream with the two tests in the other order.
EndOfStreamLevelFirst(t) ==
    LET u == [t EXCEPT !.char = Some("")] IN
    IF u.level # 0 THEN Raise(u, Error("UnclosedNestedBlockAtEof"))
    ELSE IF u.state # "BeforeStartOfBlock" THEN Raise(u, Error("UnclosedBlockAtEof"))
    ELSE [u EXCEPT !.pc = "return"]

\* readable.read(1) returned '': the loop ends and the final checks run.
EndOfStream(t) ==
    LET u == [t EXCEPT !.char = Some("")] IN
    IF u.state # "BeforeStartOfBlock" THEN Raise(u, Error("UnclosedBlockAtEof"))
    ELSE IF u.level # 0 THEN Raise(u, Error("UnclosedNestedBlockAtEof"))
    ELSE [u EXCEPT !.pc = "return"]

YieldLines == {"yield76", "yield83", "yield102", "yield115", "yield116", "yield129"}

\* list(messageItems(readable)): the items yielded so far and the frame, for
\* a consumer that takes every item and asks for the next one.
RECURSIVE Drain(_, _)
Drain(t, its) ==
    IF t.pc \in YieldLines THEN Drain(AfterYield(t), Append(its, Val(t.yielded)))
    ELSE [frame |-> t, items |-> its]

RECURSIVE Tokenize(_, _, _)
Tokenize(t, its, input) ==
    IF t.pc # "read" THEN [frame |-> t, items |-> its]
    ELSE IF input = <<>> THEN [frame |-> EndOfStream(t), items |-> its]
    ELSE LET r == Drain(ReadChar(t, Head(input)), its)
         IN  Tokenize(r.frame, r.items, Tail(input))

ListOfMessageItems(input) == Tokenize(TokenizerInit, <<>>, input)

\* ---------------------------------------------------- grouper: structuredItems
\* The generator's frame before the for loop; out holds the tuples yielded
\* by the current pass of the loop body.
GrouperInit ==
    [block |-> None, field |-> None, value |-> None, valuesSoFar |-> <<>>,
     level |-> None, kind |-> None, pc |-> "loop", out |-> <<>>, error |-> None]

\* yield (level, block, field, valuesSoFar)
StructuredTuple(g) == <<Val(g.level), g.block, g.field, g.valuesSoFar>>

\* OnBlock that takes block id 0 for no block.
OnBlockZeroAsNone(g) ==
    [g EXCEPT !.out = IF g.block # None THEN <<StructuredTuple(g)>> ELSE <<>>,
              !.block = IF g.value = 0 THEN None ELSE Some(g.value),
              !.field = None, !.valuesSoFar = <<>>]

\* OnBlock that yields the tuple of the block before only when it has values.
OnBlockSkippingEmpty(g) ==
    [g EXCEPT !.out = IF g.block # None /\ g.valuesSoFar # <<>>
                      THEN <<StructuredTuple(g)>> ELSE <<>>,
              !.block = Some(g.value), !.field = None, !.valuesSoFar = <<>>]

\* kind == 'block'
OnBlock(g) ==
    [g EXCEPT !.out = IF g.block # None THEN <<StructuredTuple(g)>> ELSE <<>>,
              !.block = Some(g.value), !.field = None, !.valuesSoFar = <<>>]

\* OnField with valuesSoFar = [] left out.
OnFieldKeepingValues(g) ==
    IF g.block = None THEN Raise(g, ErrorNaming("FieldOutsideBlock", g.value))
    ELSE [g EXCEPT !.out = <<StructuredTuple(g)>>, !.field = Some(g.value)]

\* OnField that yields a tuple only when there are values.
OnFieldSkippingEmpty(g) ==
    IF g.block = None THEN Raise(g, ErrorNaming("FieldOutsideBlock", g.value))
    ELSE [g EXCEPT !.out = IF g.valuesSoFar # <<>> THEN <<StructuredTuple(g)>> ELSE <<>>,
                   !.field = Some(g.value), !.valuesSoFar = <<>>]

\* kind == 'field'
OnField(g) ==
    IF g.block = None THEN Raise(g, ErrorNaming("FieldOutsideBlock", g.value))
    ELSE [g EXCEPT !.out = <<StructuredTuple(g)>>,
                   !.field = Some(g.value), !.valuesSoFar = <<>>]

\* kind == 'value'
OnValue(g) == [g EXCEPT !.valuesSoFar = Append(g.valuesSoFar, g.value)]

\* any other kind: assert False
OnOtherKind(g) == Raise(g, AssertionError)

\* One pass of the for loop: the item is unpacked into level, kind, value
\* and the branch of its kind runs.
ForLoopBody(g, item) ==
    LET h == [g EXCEPT !.level = Some(item[1]), !.kind = Some(item[2]),
                       !.value = item[3], !.out = <<>>]
    IN  CASE item[2] = "block" -> OnBlock(h)
          [] item[2] = "field" -> OnField(h)
          [] item[2] = "value" -> OnValue(h)
          [] OTHER -> OnOtherKind(h)

\* The tokenizer is exhausted: the last tuple is yielded if it has values.
AfterLoop(g) ==
    IF g.valuesSoFar # <<>> THEN
        IF g.level = None THEN Raise([g EXCEPT !.out = <<>>], NameError)
        ELSE [g EXCEPT !.out = <<StructuredTuple(g)>>, !.pc = "return"]
    ELSE [g EXCEPT !.out = <<>>, !.pc = "return"]

\* An exception of the tokenizer leaves structuredItems through its for loop.
Propagate(g, exc) == Raise([g EXCEPT !.out = <<>>], exc)

\* ----------------------------------------------------------------- Report
\* Python strings that are sliced and stripped, as sequences of characters.
TRNA == <<"/", "T", "R", "N", "A">>
SAFE == <<":", "S", "A", "F", "E", "/", "/">>
RAWCE260 == <<"R", "A", "W", "C", "E", "2", "6", "0">>
Whitespace == {" ", "\t", "\n", "\r"}

\* value.startswith(valuePrefix)
startswith(value, valuePrefix) ==
    /\ Len(valuePrefix) <= Len(value)
    /\ SubSeq(value, 1, Len(valuePrefix)) = valuePrefix

RECURSIVE lstrip(_)
lstrip(s) == IF s # <<>> /\ Head(s) \in Whitespace THEN lstrip(Tail(s)) ELSE s

RECURSIVE rstrip(_)
rstrip(s) ==
    IF s # <<>> /\ s[Len(s)] \in Whitespace THEN rstrip(SubSeq(s, 1, Len(s) - 1)) ELSE s

\* result.strip()
strip(s) == rstrip(lstrip(s))

\* The result of the while loop of _valueFor: the rest of the first value
\* that starts with valuePrefix, stripped, or None.
valueFor(item, valuePrefix) ==
    LET values == item[4]
        found == {i \in 1..Len(values) : startswith(values[i], valuePrefix)}
    IN  IF found = {} THEN None
        ELSE LET valueIndex == CHOOSE i \in found : \A j \in found : i <= j
                 value == values[valueIndex]
             IN  Some(strip(SubSeq(value, Len(valuePrefix) + 1, Len(value))))

\* self.report = None; no other attribute is set before the loop.
ReportInit ==
    [report |-> None, safekeepingAccount |-> None, pc |-> "loop", error |-> None]

\* _processCe260 for the tuples of the model: field '97A' of block 4 at level
\* 1 sets safekeepingAccount from its ':SAFE//' value, which is required; a
\* tuple of another level or block, or without a branch for its field, does
\* nothing. The fields 19A, 20C, 35B, 36B, 70E, 94B and 98A are not among
\* the tuples of the model.
processCe260(r, item) ==
    IF item[1] = 1 /\ item[2] = Some(4) /\ item[3] = Some("97A") THEN
        LET result == valueFor(item, SAFE) IN
        IF result = None THEN Raise(r, ErrorNaming("ValueNotFound", SAFE))
        ELSE [r EXCEPT !.safekeepingAccount = result]
    ELSE r

\* One pass of the for loop of Report.__init__.
ReportLoopBody(r, item) ==
    IF r.report = None THEN
        IF <<item[1], item[2], item[3]>> = <<1, Some(4), Some("77E")>> THEN
            LET result == valueFor(item, TRNA) IN
            IF result = None THEN Raise(r, ErrorNaming("ValueNotFound", TRNA))
            ELSE [r EXCEPT !.report = result]
        ELSE r
    ELSE IF r.report = Some(RAWCE260) THEN processCe260(r, item)
    ELSE Raise(r, ErrorNaming("UnknownReportType", Val(r.report)))

\* ------------------------------------------------------------------ state
\* driver:    who iterates: "list" is list(messageItems(f)), "structuredItems"
\*            is list(structuredItems(f)), "items" is the for loop of
\*            structuredItems run over any sequence of items, "Report" is
\*            the for loop of Report.__init__ run over any sequence of tuples
\* consumed:  the characters read from the stream so far
\* tokenizer: the frame of messageItems
\* items:     the items the tokenizer has handed to its consumer
\* grouper:   the frame of structuredItems
\* tuples:    the tuples the grouper has handed to its consumer
\* report:    the frame of Report.__init__ with the attributes of self
VARIABLES driver, consumed, tokenizer, items, grouper, tuples, report

vars == <<driver, consumed, tokenizer, items, grouper, tuples, report>>

CountCR(s) == Cardinality({i \in 1..Len(s) : s[i] = "\r"})

\* list(messageItems(f))
Init ==
    /\ driver = "list"
    /\ consumed = <<>>
    /\ tokenizer = TokenizerInit
    /\ items = <<>>
    /\ grouper = GrouperInit
    /\ tuples = <<>>
    /\ report = ReportInit

\* list(structuredItems(f))
InitStructured ==
    /\ driver = "structuredItems"
    /\ consumed = <<>>
    /\ tokenizer = TokenizerInit
    /\ items = <<>>
    /\ grouper = GrouperInit
    /\ tuples = <<>>
    /\ report = ReportInit

\* The items the for loop of structuredItems can be given: (level, kind, value).
Levels == 0..MaxLevel
BlockItems == {<<l, "block", n>> : l \in Levels, n \in {0, 1}}
FieldItems == {<<l, "field", <<"0">> >> : l \in Levels}
ValueItems == {<<l, "value", v>> : l \in Levels, v \in {<<>>, <<"0">>}}
MessageItems == {<<l, "message", None>> : l \in Levels}
ItemSet == BlockItems \cup FieldItems \cup ValueItems \cup MessageItems

\* The for loop of structuredItems over any sequence of items.
InitItems ==
    /\ driver = "items"
    /\ consumed = <<>>
    /\ tokenizer = TokenizerInit
    /\ items = <<>>
    /\ grouper = GrouperInit
    /\ tuples = <<>>
    /\ report = ReportInit

\* The tuples the for loop of Report.__init__ can be given.
ReportValues ==
    {<<>>, <<TRNA>>, <<TRNA \o RAWCE260>>, <<TRNA \o <<" ">> \o RAWCE260 \o <<" ">> >>,
     <<TRNA \o <<"X">> >>, << <<"X">>, TRNA \o <<"X">> >>}
ReportTuples == {<<1, Some(4), Some("77E"), values>> : values \in ReportValues}
AccountTuples == {<<1, Some(4), Some("97A"), values>> : values \in {<<>>, <<SAFE \o <<"1">> >>}}
OtherTuples == {<<1, Some(1), None, << <<"X">> >> >>, <<2, Some(4), Some("77E"), <<TRNA>> >>}
TupleSet == ReportTuples \cup AccountTuples \cup OtherTuples

\* Report(f) over any sequence of tuples.
InitReport ==
    /\ driver = "Report"
    /\ consumed = <<>>
    /\ tokenizer = TokenizerInit
    /\ items = <<>>
    /\ grouper = GrouperInit
    /\ tuples = <<>>
    /\ report = ReportInit

\* The stream delivers one more character.
Read(c) ==
    /\ tokenizer.pc = "read"
    /\ Len(consumed) < (IF driver = "list" THEN MaxListLen ELSE MaxLen)
    /\ c = "\r" => CountCR(consumed) < MaxCR
    /\ LET t == ReadChar(tokenizer, c)
       IN  /\ t.text # None => Len(Val(t.text)) <= MaxText
           /\ tokenizer' = t
    /\ consumed' = Append(consumed, c)
    /\ UNCHANGED <<driver, items, grouper, tuples, report>>

\* The stream is exhausted.
Eof ==
    /\ tokenizer.pc = "read"
    /\ tokenizer' = EndOfStream(tokenizer)
    /\ UNCHANGED <<driver, consumed, items, grouper, tuples, report>>

\* list() takes the yielded item and resumes the tokenizer.
ListNext ==
    /\ driver = "list"
    /\ tokenizer.pc \in YieldLines
    /\ items' = Append(items, Val(tokenizer.yielded))
    /\ tokenizer' = AfterYield(tokenizer)
    /\ UNCHANGED <<driver, consumed, grouper, tuples, report>>

\* The for loop of structuredItems takes the yielded item, runs its body and,
\* unless the body raised, resumes the tokenizer.
ForLoop ==
    /\ driver = "structuredItems"
    /\ grouper.pc = "loop"
    /\ tokenizer.pc \in YieldLines
    /\ items' = Append(items, Val(tokenizer.yielded))
    /\ grouper' = ForLoopBody(grouper, Val(tokenizer.yielded))
    /\ tuples' = tuples \o grouper'.out
    /\ tokenizer' = IF grouper'.pc = "loop" THEN AfterYield(tokenizer) ELSE tokenizer
    /\ UNCHANGED <<driver, consumed, report>>

\* The tokenizer returned: the for loop ends.
ForLoopEnd ==
    /\ driver = "structuredItems"
    /\ grouper.pc = "loop"
    /\ tokenizer.pc = "return"
    /\ grouper' = AfterLoop(grouper)
    /\ tuples' = tuples \o grouper'.out
    /\ UNCHANGED <<driver, consumed, tokenizer, items, report>>

\* The tokenizer raised: the exception passes through structuredItems.
ForLoopRaise ==
    /\ driver = "structuredItems"
    /\ grouper.pc = "loop"
    /\ tokenizer.pc = "raise"
    /\ grouper' = Propagate(grouper, Val(tokenizer.error))
    /\ UNCHANGED <<driver, consumed, tokenizer, items, tuples, report>>

\* One pass of the for loop for the next item of the sequence.
ForLoopItem(item) ==
    /\ driver = "items"
    /\ grouper.pc = "loop"
    /\ Len(items) < MaxItems
    /\ items' = Append(items, item)
    /\ grouper' = ForLoopBody(grouper, item)
    /\ tuples' = tuples \o grouper'.out
    /\ UNCHANGED <<driver, consumed, tokenizer, report>>

\* The sequence of items is exhausted: the for loop ends.
ForLoopItemsEnd ==
    /\ driver = "items"
    /\ grouper.pc = "loop"
    /\ grouper' = AfterLoop(grouper)
    /\ tuples' = tuples \o grouper'.out
    /\ UNCHANGED <<driver, consumed, tokenizer, items, report>>

\* One pass of the for loop of Report.__init__ for the next tuple.
ReportTuple(item) ==
    /\ driver = "Report"
    /\ report.pc = "loop"
    /\ Len(tuples) < MaxTuples
    /\ tuples' = Append(tuples, item)
    /\ report' = ReportLoopBody(report, item)
    /\ UNCHANGED <<driver, consumed, tokenizer, items, grouper>>

\* The sequence of tuples is exhausted: __init__ returns.
ReportEnd ==
    /\ driver = "Report"
    /\ report.pc = "loop"
    /\ report' = [report EXCEPT !.pc = "return"]
    /\ UNCHANGED <<driver, consumed, tokenizer, items, grouper, tuples>>

Next ==
    \/ \E c \in Chars : Read(c)
    \/ Eof
    \/ ListNext

NextStructured ==
    \/ \E c \in Chars : Read(c)
    \/ Eof
    \/ ForLoop
    \/ ForLoopEnd
    \/ ForLoopRaise

\* The tokenizer alone, iterated by list().
Spec == Init /\ [][Next]_vars

\* The grouper iterating the tokenizer, iterated by list().
SpecStructured == InitStructured /\ [][NextStructured]_vars

NextItems ==
    \/ \E item \in ItemSet : ForLoopItem(item)
    \/ ForLoopItemsEnd

\* The grouper alone, over any sequence of items.
SpecItems == InitItems /\ [][NextItems]_vars

NextReport ==
    \/ \E item \in TupleSet : ReportTuple(item)
    \/ ReportEnd

\* Report.__init__ alone, over any sequence of tuples.
SpecReport == InitReport /\ [][NextReport]_vars

\* ------------------------------------------------------------------ claims
\* The step just taken read the character c from the stream.
JustRead(c) == tokenizer.pc = "read" /\ consumed' = Append(consumed, c)

Raised(t, exc) == t.pc = "raise" /\ t.error = Some(exc)

\* C1: the tokenizer's level is never negative, it is at least 1 whenever the
\* state is not BeforeStartOfBlock, and no assert of the tokenizer fails.
C1_LevelNeverNegative ==
    /\ tokenizer.level >= 0
    /\ tokenizer.state # "BeforeStartOfBlock" => tokenizer.level >= 1
    /\ ~Raised(tokenizer, AssertionError)

\* C1 witness: a '}' has closed a nested block after a value, the assert ran
\* and the tokenizer goes on inside the parent block.
C1_Witness ==
    /\ tokenizer.pc = "read"
    /\ tokenizer.char = Some("}")
    /\ tokenizer.state = "BeforeStartOfBlock"
    /\ tokenizer.level = 1
    /\ items # <<>>
    /\ items[Len(items)][2] = "value"

IsMessage(item) == item[2] = "message"

C2_MessageItems ==
    /\ \A i \in 1..Len(items) :
          IsMessage(items[i]) => items[i][1] = 0 /\ items[i][3] = None
    /\ tokenizer.yielded # None /\ IsMessage(Val(tokenizer.yielded)) =>
          /\ tokenizer.pc = "yield76"
          /\ tokenizer.state = "BeforeStartOfBlock"
          /\ tokenizer.level = 0
          /\ Val(tokenizer.yielded) = <<0, "message", None>>

C2_MessageSteps ==
    /\ tokenizer.pc = "yield76" /\ tokenizer' # tokenizer =>
          /\ tokenizer'.pc = "read"
          /\ tokenizer'.state = "BeforeStartOfBlock"
          /\ tokenizer'.level = 0
    /\ /\ JustRead("\n")
       /\ tokenizer.state = "BeforeStartOfBlock"
       /\ tokenizer.level # 0
       => /\ Raised(tokenizer', Error("UnclosedNestedBlock"))
          /\ tokenizer'.yielded = None
          /\ items' = items

\* C2: every 'message' item has level 0 and payload None and is yielded only
\* in state BeforeStartOfBlock at level 0, which still hold when the tokenizer
\* goes on; a '\n' read in BeforeStartOfBlock at a level other than 0 yields
\* nothing and raises UnclosedNestedBlock.
C2_MessageAtLevelZero == []C2_MessageItems /\ [][C2_MessageSteps]_vars

\* C2 witness: after a block with a value, a message item was taken and the
\* tokenizer has gone on in BeforeStartOfBlock.
C2_Witness ==
    /\ Len(items) = 3
    /\ items[2][2] = "value"
    /\ items[3] = <<0, "message", None>>
    /\ tokenizer.pc = "read"
    /\ tokenizer.state = "BeforeStartOfBlock"

\* The step just taken handed a 'message' item to the for loop of the grouper.
GrouperTakesMessage ==
    /\ driver = "structuredItems"
    /\ grouper.pc = "loop"
    /\ tokenizer.pc \in YieldLines
    /\ IsMessage(Val(tokenizer.yielded))

\* C3: on a 'message' item the grouper yields no tuple, leaves block, field
\* and valuesSoFar as they are, does not fail and goes on with the next item.
C3_MessageItemIgnored ==
    [][GrouperTakesMessage =>
          /\ tuples' = tuples
          /\ grouper'.block = grouper.block
          /\ grouper'.field = grouper.field
          /\ grouper'.valuesSoFar = grouper.valuesSoFar
          /\ grouper'.pc = "loop"
          /\ tokenizer'.pc = "read"]_vars

\* The (block, field, value) triples the tuples carry, in order.
RECURSIVE TupleTriples(_)
TupleTriples(ts) ==
    IF ts = <<>> THEN <<>>
    ELSE [i \in 1..Len(ts[1][4]) |-> <<ts[1][2], ts[1][3], ts[1][4][i]>>]
         \o TupleTriples(Tail(ts))

\* The (block, field, value) triples of the 'value' items, each with the most
\* recent block id and the most recent field name since that block.
RECURSIVE ItemTriples(_, _, _)
ItemTriples(its, b, f) ==
    IF its = <<>> THEN <<>>
    ELSE LET item == Head(its) IN
         CASE item[2] = "block" -> ItemTriples(Tail(its), Some(item[3]), None)
           [] item[2] = "field" -> ItemTriples(Tail(its), b, Some(item[3]))
           [] item[2] = "value" -> <<<<b, f, item[3]>>>> \o ItemTriples(Tail(its), b, f)
           [] OTHER -> ItemTriples(Tail(its), b, f)

NoMessageItem == \A i \in 1..Len(items) : ~IsMessage(items[i])

\* C4: when the tokenizer finishes without error and without a line break at
\* level 0, the grouper finishes without error and its tuples carry exactly
\* the tokenizer's values, in order, each under the most recent block id and
\* field name.
C4_ValuesRegrouped ==
    /\ driver = "structuredItems"
    /\ tokenizer.pc = "return"
    /\ NoMessageItem
    /\ grouper.pc # "loop"
    => /\ grouper.pc = "return"
       /\ TupleTriples(tuples) = ItemTriples(items, None, None)

\* C4 witness: the grouper has finished with a tuple of values that precede
\* any field and a tuple of values of a field.
C4_Witness ==
    /\ driver = "structuredItems"
    /\ grouper.pc = "return"
    /\ Len(tuples) = 2
    /\ tuples[1][3] = None /\ tuples[1][4] # <<>>
    /\ tuples[2][3] # None /\ tuples[2][4] # <<>>

IsField(item) == item[2] = "field"
OfField(tuple) == tuple[3] # None

\* C5: the tuple that carries the values of a field item (L, field, F) has
\* level L, whatever makes the grouper yield it.  The tuples of fields are
\* yielded in the order of the field items.
C5_TupleLevelIsFieldLevel ==
    LET ft == SelectSeq(tuples, OfField)
        fi == SelectSeq(items, IsField)
    IN  \A k \in 1..Len(ft) :
           k <= Len(fi) /\ ft[k][3] = Some(fi[k][3]) /\ ft[k][1] = fi[k][1]

Finished(t) == t.pc \in {"return", "raise"}

\* The claim of C6 for every split of the consumed stream into A, its first
\* k characters or more, and B, the rest; t and its are the frame and the
\* items after the first k characters.
RECURSIVE SplitsAgree(_, _, _)
SplitsAgree(t, its, k) ==
    /\ t.pc = "read" /\ EndOfStream(t).pc = "return" =>
          LET b == ListOfMessageItems(SubSeq(consumed, k + 1, Len(consumed)))
          IN  /\ items = its \o b.items
              /\ tokenizer.pc = b.frame.pc
              /\ tokenizer.error = b.frame.error
    /\ t.pc = "read" /\ k < Len(consumed) =>
          LET r == Drain(ReadChar(t, consumed[k + 1]), its)
          IN  SplitsAgree(r.frame, r.items, k + 1)

\* C6: when tokenizing A alone completes without error, the items and the
\* outcome of the stream A followed by B are the items of A followed by the
\* items and the outcome of B alone.
C6_ConcatenatedMessages ==
    driver = "list" /\ Finished(tokenizer) => SplitsAgree(TokenizerInit, <<>>, 0)

\* C6 witness: a first message, a block and a line break at level 0, was
\* followed by a block that the end of the stream leaves open.
C6_Witness ==
    /\ driver = "list"
    /\ Raised(tokenizer, Error("UnclosedBlockAtEof"))
    /\ Len(items) = 3
    /\ items[1][2] = "block" /\ IsMessage(items[2]) /\ items[3][2] = "block"

\* C7: at end of stream the tokenizer returns exactly when the state is
\* BeforeStartOfBlock and level is 0; otherwise it raises UnclosedBlockAtEof
\* when the state is not BeforeStartOfBlock and UnclosedNestedBlockAtEof when
\* only the level is not 0; it yields nothing.
C7_EndOfStream ==
    tokenizer.char = Some("") =>
        /\ Finished(tokenizer)
        /\ tokenizer.yielded = None
        /\ tokenizer.pc = "return" <=>
              tokenizer.state = "BeforeStartOfBlock" /\ tokenizer.level = 0
        /\ tokenizer.state # "BeforeStartOfBlock" =>
              Raised(tokenizer, Error("UnclosedBlockAtEof"))
        /\ tokenizer.state = "BeforeStartOfBlock" /\ tokenizer.level # 0 =>
              Raised(tokenizer, Error("UnclosedNestedBlockAtEof"))

\* C7 witness: the stream ended inside a value two blocks deep, where both
\* tests fail and the state decides.
C7_Witness ==
    /\ tokenizer.char = Some("")
    /\ tokenizer.state = "InValue"
    /\ tokenizer.level = 2
    /\ Raised(tokenizer, Error("UnclosedBlockAtEof"))

\* C8: a '}' read in BeforeStartOfBlock raises UnmatchedCloseBrace exactly
\* when level is 0; otherwise level goes down by one, nothing is yielded and
\* the state stays BeforeStartOfBlock.
C8_CloseBraceBeforeBlock ==
    [][JustRead("}") /\ tokenizer.state = "BeforeStartOfBlock" =>
          /\ items' = items
          /\ tokenizer'.yielded = None
          /\ tokenizer'.state = "BeforeStartOfBlock"
          /\ IF tokenizer.level = 0
             THEN Raised(tokenizer', Error("UnmatchedCloseBrace"))
             ELSE /\ tokenizer'.pc = "read"
                  /\ tokenizer'.level = tokenizer.level - 1]_vars

\* C8 witness: the second '}' of two adjacent ones was read in
\* BeforeStartOfBlock at level 1 and closed the outer block.
C8_Witness ==
    /\ Len(consumed) >= 2
    /\ consumed[Len(consumed)] = "}"
    /\ consumed[Len(consumed) - 1] = "}"
    /\ tokenizer.pc = "read"
    /\ tokenizer.state = "BeforeStartOfBlock"
    /\ tokenizer.level = 0

\* C9: in InBlockKey a ':' with no digit accumulated, and any character that
\* is neither a digit nor ':', raises the Error InvalidBlockId, and no item is
\* yielded.
C9_InvalidBlockId ==
    [][\A c \in Chars \ {"\r"} :
          /\ JustRead(c)
          /\ tokenizer.state = "InBlockKey"
          /\ ~isdigit(c)
          /\ c = ":" => tokenizer.text = Some(<<>>)
          => /\ Raised(tokenizer', Error("InvalidBlockId"))
             /\ tokenizer'.yielded = None
             /\ items' = items]_vars

NotCR(c) == c # "\r"
StripCR(s) == SelectSeq(s, NotCR)

C10_SameAsStripped ==
    driver = "list" /\ Finished(tokenizer) =>
        LET r == ListOfMessageItems(StripCR(consumed))
        IN  /\ items = r.items
            /\ tokenizer.pc = r.frame.pc
            /\ tokenizer.error = r.frame.error

C10_CRStep ==
    JustRead("\r") =>
        /\ tokenizer' = [tokenizer EXCEPT !.char = Some("\r")]
        /\ items' = items

\* C10: a '\r' changes neither state, level, accumulator nor the items, and
\* the items and the outcome of an input are those of the input with every
\* '\r' removed.
C10_CarriageReturnTransparent == []C10_SameAsStripped /\ [][C10_CRStep]_vars

\* C10 witness: a stream with a '\r' inside a value was tokenized to its end.
C10_Witness ==
    /\ driver = "list"
    /\ tokenizer.pc = "return"
    /\ \E i \in 2..(Len(consumed) - 1) :
          /\ consumed[i] = "\r"
          /\ consumed[i - 1] \in Digits
          /\ consumed[i + 1] = "}"
          /\ items[Len(items)] = <<1, "value", <<consumed[i - 1]>> >>


IsPrefix(s, t) == Len(s) <= Len(t) /\ SubSeq(t, 1, Len(s)) = s

C11_ErrorSteps ==
    /\ IsPrefix(items, items')
    /\ tokenizer.error # None => UNCHANGED <<tokenizer, items, consumed>>
    /\ tokenizer.error = None /\ tokenizer'.error # None =>
          /\ tokenizer.pc = "read"
          /\ tokenizer.yielded = None
          /\ tokenizer'.pc = "raise"
          /\ tokenizer'.yielded = None
          /\ items' = items
          /\ \/ tokenizer'.char = Some("") /\ consumed' = consumed
             \/ consumed' = Append(consumed, Val(tokenizer'.char))

\* C11: an error of the tokenizer is raised in the step that reads the
\* offending character (or finds the end of the stream), when every item of
\* the characters before it has been handed over; after it nothing is read
\* and nothing is yielded; the items only ever grow at their end.
C11_ErrorsImmediateAndFatal == [][C11_ErrorSteps]_vars

\* C11 witness: a character in the middle of the stream raised an error after
\* a field item and its value item had been handed over.
C11_Witness ==
    /\ tokenizer.pc = "raise"
    /\ tokenizer.char # Some("")
    /\ Len(items) >= 3
    /\ IsField(items[Len(items) - 1])

OpensBlock == tokenizer.state \in {"BeforeStartOfBlock", "InLine"}

C12_ItemLevel ==
    /\ tokenizer.yielded # None /\ ~IsMessage(Val(tokenizer.yielded)) =>
          Val(tokenizer.yielded)[1] = tokenizer.level
    /\ consumed = <<"{", "0", ":", "{", "1", ":", "0", "}", "}">>
       /\ tokenizer.pc = "read" =>
          /\ items = << <<1, "block", 0>>, <<2, "block", 1>>, <<2, "value", <<"0">> >> >>
          /\ tokenizer.level = 0

C12_BlockSteps ==
    /\ JustRead("{") /\ OpensBlock =>
          /\ tokenizer'.state = "InBlockKey"
          /\ tokenizer'.level = tokenizer.level + 1
    /\ \A c \in Chars : JustRead(c) /\ tokenizer.state = "InBlockKey" =>
          /\ tokenizer'.level = tokenizer.level
          /\ c = ":" /\ tokenizer.text # Some(<<>>) =>
                tokenizer'.yielded =
                    Some(<<tokenizer.level, "block", DecimalValue(Val(tokenizer.text))>>)

\* C12: a '{' that opens a block at level k takes the level to k + 1, the
\* block item is yielded with level k + 1 and the decimal value of its key,
\* and every block, field and value item carries the level of the tokenizer
\* at its yield; {0:{1:0}} yields (1, block, 0), (2, block, 1), (2, value, "0")
\* and ends at level 0.
C12_BlockLevels == []C12_ItemLevel /\ [][C12_BlockSteps]_vars

\* C12 witness: {0:{1:0}} was read to its last brace.
C12_Witness ==
    /\ consumed = <<"{", "0", ":", "{", "1", ":", "0", "}", "}">>
    /\ tokenizer.pc = "read"
    /\ Len(items) = 3

Count(s, c) == Cardinality({i \in 1..Len(s) : s[i] = c})

\* C13 as stated: level is the number of '{' read minus the number of '}' read.
C13_LevelIsBraceBalance ==
    tokenizer.pc = "read" /\ tokenizer.error = None =>
        tokenizer.level = Count(consumed, "{") - Count(consumed, "}")

\* The level once a '}' that ended a value has been acted on: the decrement
\* of lines 117-120 and 130-133 waits behind the yields of the value.
SettledLevel(t) ==
    IF t.pc \in {"yield115", "yield116", "yield129"} /\ t.char = Some("}")
    THEN t.level - 1
    ELSE t.level

ClosesBlock ==
    tokenizer.state \in {"BeforeStartOfBlock", "InLine", "InFieldValue", "InValue"}

C13_LevelSteps ==
    tokenizer'.error = None =>
        SettledLevel(tokenizer') =
            SettledLevel(tokenizer)
            + (IF JustRead("{") /\ OpensBlock THEN 1 ELSE 0)
            - (IF JustRead("}") /\ ClosesBlock THEN 1 ELSE 0)

\* C13: level goes up by one exactly for a '{' read in BeforeStartOfBlock or
\* InLine and down by one exactly for a '}' read without error in
\* BeforeStartOfBlock, InLine, InFieldValue or InValue (for the last two once
\* the value has been yielded); every other step, a brace read as text of a
\* field key or of a value included, leaves it alone.
C13_LevelFollowsBlockBraces == [][C13_LevelSteps]_vars

\* C13 witness: a field named "{" was yielded and the '}' after it closed
\* the block, so two '{' and one '}' were read and level is 0.
C13_Witness ==
    /\ tokenizer.pc = "read"
    /\ tokenizer.level = 0
    /\ Count(consumed, "{") = 2
    /\ Count(consumed, "}") = 1
    /\ \E i \in 1..Len(items) : items[i] = <<1, "field", <<"{">> >>

\* C14: every message item has a block item between it and the message item
\* before it, or the start of the stream.
C14_MessageEndsBlocks ==
    \A i \in 1..Len(items) : IsMessage(items[i]) =>
        \E j \in 1..(i - 1) :
            /\ items[j][2] = "block"
            /\ \A k \in j..(i - 1) : ~IsMessage(items[k])

C15_BeforeBlockSteps ==
    \A c \in Chars : JustRead(c) /\ tokenizer.state = "BeforeStartOfBlock" =>
        /\ c \notin {"{", "}", "\n", "\r"} =>
              /\ Raised(tokenizer', Error("ExpectedBlockStart"))
              /\ tokenizer'.yielded = None
              /\ items' = items
        /\ tokenizer.level >= 1 /\ tokenizer'.error = None => c \in {"{", "}", "\r"}

\* C15: in BeforeStartOfBlock a character other than '{', '}', '\n' and '\r'
\* raises ExpectedBlockStart and yields no item; inside a parent whose nested
\* block was closed only '{', '}' and the ignored '\r' are read without error.
C15_ExpectedBlockStart == [][C15_BeforeBlockSteps]_vars

\* C15 witness: text after the closing brace of a nested block, as the last
\* character of {0:{0:}0, raised ExpectedBlockStart inside the open parent.
C15_Witness ==
    /\ Raised(tokenizer, Error("ExpectedBlockStart"))
    /\ tokenizer.level = 1
    /\ Len(items) = 2
    /\ Len(consumed) >= 2
    /\ consumed[Len(consumed) - 1] = "}"

EmptyValue(t) == <<t.level, "value", <<>> >>

C18_ValueSteps ==
    /\ JustRead("}") /\ tokenizer.state = "InLine" =>
          /\ tokenizer'.pc = "read"
          /\ tokenizer'.yielded = None
          /\ items' = items
    /\ JustRead("\n") /\ tokenizer.state = "InLine" =>
          /\ tokenizer'.pc = "yield102"
          /\ tokenizer'.yielded = Some(EmptyValue(tokenizer))
    /\ tokenizer.pc = "yield102" /\ tokenizer'.pc # "yield102" =>
          /\ tokenizer'.pc = "read"
          /\ tokenizer'.state = "InLine"
          /\ items' = Append(items, EmptyValue(tokenizer))
    /\ \A c \in {"\n", "}"} :
          JustRead(c) /\ tokenizer.state = "InFieldValue" /\ tokenizer.text = Some(<<>>) =>
              /\ tokenizer'.pc = "yield115"
              /\ tokenizer'.yielded = Some(<<tokenizer.level, "field", Val(tokenizer.fieldKey)>>)
    /\ tokenizer.pc = "yield115" /\ tokenizer.text = Some(<<>>)
       /\ tokenizer'.pc # "yield115" =>
          /\ tokenizer'.pc = "yield116"
          /\ tokenizer'.yielded = Some(EmptyValue(tokenizer))

\* C18: a '}' read in InLine yields no item; a '\n' read in InLine yields
\* exactly one (level, value, "") and the tokenizer stays in InLine; a field
\* whose text is empty at its '\n' or '}' still yields (level, field, k) and
\* then (level, value, "").
C18_EmptyValueIsAValue == [][C18_ValueSteps]_vars

\* C18 witness: an empty line and a field without text in one block, as in
\* "{0:\n:0:}", gave block, value "", field, value "".
C18_Witness ==
    /\ Len(items) = 4
    /\ items[1][2] = "block"
    /\ items[2] = <<1, "value", <<>> >>
    /\ IsField(items[3])
    /\ items[4] = <<1, "value", <<>> >>

IsValue(item) == item[2] = "value"

C19_FieldHasValue ==
    /\ \A i \in 1..Len(items) : IsField(items[i]) =>
          IF i < Len(items)
          THEN IsValue(items[i + 1]) /\ items[i + 1][1] = items[i][1]
          ELSE /\ tokenizer.pc = "yield116"
               /\ IsValue(Val(tokenizer.yielded))
               /\ Val(tokenizer.yielded)[1] = items[i][1]
    /\ tokenizer.pc \in {"yield115", "yield116", "yield129"} =>
          /\ tokenizer.char \in {Some("\n"), Some("}")}
          /\ Val(tokenizer.yielded)[1] = tokenizer.level
    /\ tokenizer.pc = "yield115" => IsField(Val(tokenizer.yielded))
    /\ tokenizer.pc = "yield129" => IsValue(Val(tokenizer.yielded))

C19_FieldSteps ==
    /\ tokenizer.pc = "yield115" /\ tokenizer'.pc # "yield115" =>
          /\ tokenizer'.pc = "yield116"
          /\ tokenizer'.yielded = Some(<<tokenizer.level, "value", Val(tokenizer.text)>>)
          /\ tokenizer'.level = tokenizer.level
          /\ consumed' = consumed
    /\ tokenizer.pc \in {"yield116", "yield129"} /\ tokenizer'.pc # tokenizer.pc =>
          /\ tokenizer'.pc = "read"
          /\ tokenizer'.yielded = None
          /\ consumed' = consumed
          /\ items' = Append(items, Val(tokenizer.yielded))
          /\ tokenizer'.level =
                IF tokenizer.char = Some("}") THEN tokenizer.level - 1 ELSE tokenizer.level
    /\ \A c \in {"\n", "}"} : JustRead(c) /\ tokenizer.state = "InValue" =>
          /\ tokenizer'.pc = "yield129"
          /\ tokenizer'.yielded = Some(<<tokenizer.level, "value", Val(tokenizer.text)>>)
          /\ tokenizer'.level = tokenizer.level

\* C19: a field item is followed at once by one value item of the same level
\* holding the text of the field; both come from the same '\n' or '}' with no
\* character read in between, the level goes down for a '}' only after the
\* value was taken, and an unlabelled value yields the value item alone.
C19_FieldThenValue == []C19_FieldHasValue /\ [][C19_FieldSteps]_vars

\* C19 witness: a field and its value were taken after a '}', the level went
\* down to 0 after both.
C19_Witness ==
    /\ Len(items) >= 3
    /\ IsField(items[Len(items) - 1])
    /\ IsValue(items[Len(items)])
    /\ tokenizer.char = Some("}")
    /\ tokenizer.pc = "read"
    /\ tokenizer.level = 0
    /\ items[Len(items)][1] = 1

IsBlock(item) == item[2] = "block"

\* C20: every field and value item has a level of at least 1, which is the
\* level of the last block item before it.
C20_LevelOfLastBlock ==
    \A i \in 1..Len(items) : IsField(items[i]) \/ IsValue(items[i]) =>
        /\ items[i][1] >= 1
        /\ \E j \in 1..(i - 1) :
              /\ IsBlock(items[j])
              /\ items[j][1] = items[i][1]
              /\ \A k \in (j + 1)..(i - 1) : ~IsBlock(items[k])

\* C20 witness: a value of a nested block, two levels deep, was taken.
C20_Witness ==
    /\ Len(items) = 3
    /\ items[1][1] = 1 /\ IsBlock(items[1])
    /\ items[2][1] = 2 /\ IsBlock(items[2])
    /\ items[3][1] = 2 /\ IsValue(items[3])
    /\ tokenizer.level = 1

\* The grouper just took the item from a sequence of items.
JustTook(item) ==
    /\ driver = "items"
    /\ grouper.pc = "loop"
    /\ items' = Append(items, item)

C16_FieldSteps ==
    \A item \in FieldItems : JustTook(item) =>
        IF grouper.block = None
        THEN /\ Raised(grouper', ErrorNaming("FieldOutsideBlock", item[3]))
             /\ tuples' = tuples
        ELSE /\ tuples' = Append(tuples, <<item[1], grouper.block, grouper.field,
                                           grouper.valuesSoFar>>)
             /\ grouper'.pc = "loop"
             /\ grouper'.block = grouper.block
             /\ grouper'.field = Some(item[3])
             /\ grouper'.valuesSoFar = <<>>

\* C16: a field item taken before any block item raises an Error that names
\* the field and gives no tuple; a field item taken after a block item gives
\* exactly one tuple (level, block, field so far, valuesSoFar), whether or
\* not there are values and a field so far, then field is the new name and
\* valuesSoFar is empty.
C16_FieldItem == [][C16_FieldSteps]_vars

\* C16 witness: a field right after a block gave a tuple without field and
\* without values.
C16_Witness ==
    /\ driver = "items"
    /\ Len(items) = 2
    /\ IsBlock(items[1])
    /\ IsField(items[2])
    /\ tuples = << <<items[2][1], Some(items[1][3]), None, <<>> >> >>
    /\ grouper.field = Some(items[2][3])

\* The tuple names a report type other than RAWCE260.
NamesUnknownReport(item) ==
    /\ <<item[1], item[2], item[3]>> = <<1, Some(4), Some("77E")>>
    /\ valueFor(item, TRNA) # None
    /\ valueFor(item, TRNA) # Some(RAWCE260)

\* C17: when the tuples given to Report hold a (1, 4, '77E') tuple whose
\* '/TRNA' value is not RAWCE260, the construction does not return: it raises
\* an Error, whatever follows that tuple.
C17_UnknownReportRejected ==
    (\E i \in 1..Len(tuples) : NamesUnknownReport(tuples[i])) =>
        /\ report.pc # "return"
        /\ report.pc = "raise" => Val(report.error).type = "Error"

\* C21: with the grouper iterating the tokenizer, no field item is handed
\* over before a block item, a field item finds block set, block id 0
\* included, and the Error for a field outside of a block is never raised.
C21_FieldOutsideBlockUnreachable ==
    /\ grouper.error # None => Val(grouper.error).what # "FieldOutsideBlock"
    /\ grouper.pc = "loop" /\ tokenizer.pc \in YieldLines
       /\ IsField(Val(tokenizer.yielded)) => grouper.block # None
    /\ \A i \in 1..Len(items) : IsField(items[i]) =>
          \E j \in 1..(i - 1) : IsBlock(items[j])

\* C21 witness: the grouper took a field of block 0 and goes on.
C21_Witness ==
    /\ driver = "structuredItems"
    /\ grouper.pc = "loop"
    /\ grouper.block = Some(0)
    /\ grouper.field # None
    /\ Len(items) >= 2
    /\ IsField(items[Len(items)])

\* The block ids of the block items, in order.
RECURSIVE BlockIds(_)
BlockIds(its) ==
    IF its = <<>> THEN <<>>
    ELSE IF IsBlock(Head(its)) THEN <<Some(Head(its)[3])>> \o BlockIds(Tail(its))
    ELSE BlockIds(Tail(its))

\* The block ids the tuples carry, in order.
TupleBlocks(tps) == [k \in 1..Len(tps) |-> tps[k][2]]

\* Every element of b finds an element of its own in t, in the same order.
RECURSIVE IsSubsequence(_, _)
IsSubsequence(b, t) ==
    IF b = <<>> THEN TRUE
    ELSE IF t = <<>> THEN FALSE
    ELSE IF Head(b) = Head(t) THEN IsSubsequence(Tail(b), Tail(t))
    ELSE IsSubsequence(b, Tail(t))

BothReturned == tokenizer.pc = "return" /\ grouper.pc = "return"

\* C22 as stated: once both generators have returned, every block item has a
\* tuple of its own that carries its id, the last block and blocks without
\* values included.
C22_EveryBlockHasTuple ==
    BothReturned => IsSubsequence(BlockIds(items), TupleBlocks(tuples))

\* The block ids without the last one when no item follows the last block.
BlocksWithTuples ==
    LET ids == BlockIds(items) IN
    IF items # <<>> /\ IsBlock(items[Len(items)])
    THEN SubSeq(ids, 1, Len(ids) - 1)
    ELSE ids

C22_TupleOfBlocks ==
    BothReturned => IsSubsequence(BlocksWithTuples, TupleBlocks(tuples))

C22_BlockSteps ==
    /\ driver = "structuredItems" /\ grouper.pc = "loop"
       /\ tokenizer.pc \in YieldLines /\ IsBlock(Val(tokenizer.yielded))
       /\ grouper.block # None =>
          tuples' = Append(tuples, <<Val(tokenizer.yielded)[1], grouper.block,
                                     grouper.field, grouper.valuesSoFar>>)
    /\ driver = "structuredItems" /\ grouper.pc = "loop"
       /\ tokenizer.pc = "return" /\ grouper'.pc = "return" =>
          IF grouper.valuesSoFar # <<>>
          THEN /\ Len(tuples') = Len(tuples) + 1
               /\ tuples'[Len(tuples')][2] = grouper.block
               /\ tuples'[Len(tuples')][4] = grouper.valuesSoFar
          ELSE tuples' = tuples

\* C22: for a stream both generators return from, every block item that is
\* followed by another block item has a tuple that carries its id, yielded at
\* the latest when the next block item is taken, values or not; the last
\* block has one when it holds a value, and when nothing follows the last
\* block item the end of the stream yields no tuple for it.
C22_BlocksGiveTuples == []C22_TupleOfBlocks /\ [][C22_BlockSteps]_vars

\* C22 witness: two blocks without values, as in {0:}{1:}, were read to the
\* end; the one tuple carries the id of the first block.
C22_Witness ==
    /\ BothReturned
    /\ Len(items) = 2
    /\ IsBlock(items[1]) /\ IsBlock(items[2])
    /\ items[1][3] # items[2][3]
    /\ tuples = << <<1, Some(items[1][3]), None, <<>> >> >>
====
